---- MODULE Spec2Model ----
(***************************************************************************)
(* State-machine model of the S3 managed download (ManagedDownloader,      *)
(* getRangeOfPart, getInformationFromRange, ManagedDownloaderStream).      *)
(*                                                                         *)
(* JavaScript runs every continuation of an async function to its next     *)
(* await without interruption, so each action below is one such run:       *)
(* the call of getObjectStream up to the await of the bootstrap fetch, the *)
(* resumption after it (which includes the synchronous start of            *)
(* downloadByParts up to its first await), the resumption of               *)
(* downloadByParts after the awaited head fetch settles, and its           *)
(* resumption after a 'drain' event.  The store completing a fetch and the *)
(* reader of the stream draining it are the environment's actions.         *)
(*                                                                         *)
(* Strings are sequences of one-character strings, so that formatting a    *)
(* range and parsing it back are computed, not assumed.                    *)
(***************************************************************************)
EXTENDS Integers, Sequences, FiniteSets, TLC

\* ------------------------------------------------------------------ bounds
MaxPartSize == 3
MaxConcurrency == 4
MaxObjLen == 10
MaxRangeByte == 6
MaxPartNumber == 2
UploadPartSize == 2
MaxShortLen == 4
MaxIndex == 4
MaxPairLen == 4
MaxPairSize == 2

\* this.maxPartSize and this.maxConcurrency when no option sets them.
DefaultMaxPartSize == 5242880
DefaultMaxConcurrency == 1

\* ------------------------------------------------------------------ values
\* An optional JavaScript value is a sequence of length at most one:
\* undefined is <<>> and the value v is <<v>>.  NaN, which only parseInt can
\* produce, is the empty option too.
undefined == <<>>
NaN == <<>>
Some(v) == <<v>>
Val(o) == o[1]

Min(a, b) == IF a <= b THEN a ELSE b

\* JavaScript truthiness: undefined, NaN, the empty string and 0 are falsy.
TruthyStr(o) == o # undefined /\ Val(o) # <<>>

TruthyName(o) == o # undefined /\ Val(o) # ""

TruthyNum(o) == o # undefined /\ Val(o) # 0

\* ------------------------------------------------------------------ strings
DigitChars == <<"0", "1", "2", "3", "4", "5", "6", "7", "8", "9">>

IsDigit(ch) == \E d \in 1..10 : DigitChars[d] = ch

DigitVal(ch) == (CHOOSE d \in 1..10 : DigitChars[d] = ch) - 1

AllDigits(s) == \A i \in 1..Len(s) : IsDigit(s[i])

RECURSIVE NatToStr(_)
NatToStr(n) == IF n < 10 THEN <<DigitChars[n + 1]>>
               ELSE NatToStr(n \div 10) \o <<DigitChars[(n % 10) + 1]>>

\* Number to string as JavaScript's string concatenation does it for integers.
NumToStr(n) == IF n < 0 THEN <<"-">> \o NatToStr(0 - n) ELSE NatToStr(n)

RECURSIVE DigitsToNat(_)
DigitsToNat(s) == IF s = <<>> THEN 0
                  ELSE 10 * DigitsToNat(SubSeq(s, 1, Len(s) - 1)) + DigitVal(s[Len(s)])

\* Length of the longest prefix of s made of digits.
RECURSIVE DigitPrefixLen(_)
DigitPrefixLen(s) == IF s = <<>> \/ ~IsDigit(s[1]) THEN 0
                     ELSE 1 + DigitPrefixLen(Tail(s))

\* parseInt: an optional sign, then the longest run of digits; NaN without one.
parseInt(s) ==
    LET neg  == s # <<>> /\ s[1] = "-"
        body == IF s # <<>> /\ s[1] \in {"-", "+"} THEN Tail(s) ELSE s
        n    == DigitPrefixLen(body)
    IN IF n = 0 THEN NaN
       ELSE IF neg THEN Some(0 - DigitsToNat(SubSeq(body, 1, n)))
       ELSE Some(DigitsToNat(SubSeq(body, 1, n)))

BytesEq == <<"b", "y", "t", "e", "s", "=">>

\* Index of the first occurrence of ch in s, 0 when there is none.
IndexOf(s, ch) == IF \E i \in 1..Len(s) : s[i] = ch
                  THEN CHOOSE i \in 1..Len(s) : s[i] = ch /\ \A j \in 1..(i - 1) : s[j] # ch
                  ELSE 0

\* String.split(sep)[1]: the text between the first and the second separator,
\* undefined when the string holds no separator.
SplitSecond(s, sep) ==
    LET i == IndexOf(s, sep)
    IN IF i = 0 THEN undefined
       ELSE LET rest == SubSeq(s, i + 1, Len(s))
                j    == IndexOf(rest, sep)
            IN IF j = 0 THEN Some(rest) ELSE Some(SubSeq(rest, 1, j - 1))

\* /^bytes=([0-9]+)-([0-9]+)$/.exec(range): the two captured groups, or null
\* (the empty tuple).
null == <<>>

\* Mutant: the pattern without its end anchor, /^bytes=([0-9]+)-([0-9]+)/.
RegExpExecUnanchored(range) ==
    IF Len(range) < Len(BytesEq) \/ SubSeq(range, 1, Len(BytesEq)) # BytesEq THEN null
    ELSE LET rest == SubSeq(range, Len(BytesEq) + 1, Len(range))
             i    == IndexOf(rest, "-")
         IN IF i = 0 THEN null
            ELSE LET g1 == SubSeq(rest, 1, i - 1)
                     g2 == SubSeq(rest, i + 1, i + DigitPrefixLen(SubSeq(rest, i + 1, Len(rest))))
                 IN IF g1 # <<>> /\ g2 # <<>> /\ AllDigits(g1)
                    THEN <<g1, g2>>
                    ELSE null

RegExpExec(range) ==
    IF Len(range) < Len(BytesEq) \/ SubSeq(range, 1, Len(BytesEq)) # BytesEq THEN null
    ELSE LET rest == SubSeq(range, Len(BytesEq) + 1, Len(range))
             i    == IndexOf(rest, "-")
         IN IF i = 0 THEN null
            ELSE LET g1 == SubSeq(rest, 1, i - 1)
                     g2 == SubSeq(rest, i + 1, Len(rest))
                 IN IF g1 # <<>> /\ g2 # <<>> /\ AllDigits(g1) /\ AllDigits(g2)
                    THEN <<g1, g2>>
                    ELSE null

\* ------------------------------------------------------------------ RangeMath
\* getInformationFromRange: the RangeInfo as an option, the thrown Error being
\* the empty option.
throw == <<>>

\* Mutant: the length counts the end byte (end - start + 1).
getInformationFromRangeInclusive(range) ==
    LET bytes == RegExpExec(range)
    IN IF bytes = null THEN throw
       ELSE Some([startByte |-> Val(parseInt(bytes[1])),
                  endByte   |-> Val(parseInt(bytes[2])),
                  length    |-> Val(parseInt(bytes[2])) - Val(parseInt(bytes[1])) + 1])

getInformationFromRange(range) ==
    LET bytes == RegExpExec(range)
    IN IF bytes = null THEN throw
       ELSE Some([startByte |-> Val(parseInt(bytes[1])),
                  endByte   |-> Val(parseInt(bytes[2])),
                  length    |-> Val(parseInt(bytes[2])) - Val(parseInt(bytes[1]))])

\* getRangeOfPart: the start and end byte it computes ...
\* Mutant: the start of a part is not moved by the offset.
startByteOfPartWithoutOffset(partNum, maxPartSize, byteOffset) ==
    partNum * maxPartSize

startByteOfPart(partNum, maxPartSize, byteOffset) ==
    (partNum * maxPartSize) + byteOffset

\* Mutant: the end of a part is not capped at the length of the download.
endByteOfPartUncapped(partNum, totalObjectLength, maxPartSize, byteOffset) ==
    ((partNum + 1) * maxPartSize) + byteOffset

endByteOfPart(partNum, totalObjectLength, maxPartSize, byteOffset) ==
    Min(totalObjectLength, (partNum + 1) * maxPartSize) + byteOffset

\* Mutant: the end byte is written as computed, one past the last byte.
getRangeOfPartExclusiveEnd(partNum, totalObjectLength, maxPartSize, byteOffset) ==
    BytesEq \o NumToStr(startByteOfPart(partNum, maxPartSize, byteOffset))
            \o <<"-">>
            \o NumToStr(endByteOfPart(partNum, totalObjectLength, maxPartSize, byteOffset))

\* ... and the string it returns.
getRangeOfPart(partNum, totalObjectLength, maxPartSize, byteOffset) ==
    BytesEq \o NumToStr(startByteOfPart(partNum, maxPartSize, byteOffset))
            \o <<"-">>
            \o NumToStr(endByteOfPart(partNum, totalObjectLength, maxPartSize, byteOffset) - 1)

\* Math.ceil(a / b) for b > 0.
Ceil(a, b) == IF a >= 0 THEN (a + b - 1) \div b ELSE 0 - ((0 - a) \div b)

\* ------------------------------------------------------------------ the store
\* The object store holds one object of objLen bytes; byte i of the object is
\* the number i, so a payload is the sequence of the offsets it carries.
Bytes(a, b) == [i \in 1..(b - a + 1) |-> a + i - 1]

ContentRangeOf(a, b, total) ==
    <<"b", "y", "t", "e", "s", " ">> \o NumToStr(a) \o <<"-">> \o NumToStr(b)
        \o <<"/">> \o NumToStr(total)

ContentTypeOfObject == Some("text/plain")

Success(body, contentRange) ==
    [status |-> "ok", Body |-> body, ContentRange |-> contentRange,
     ContentType |-> ContentTypeOfObject]

\* What a successful answer to the request req looks like, as a set: empty
\* when the store can only refuse the request.
\*  - Range and PartNumber together are refused.
\*  - A part number selects one part of the upload layout (parts of
\*    UploadPartSize bytes); a part the object does not have is refused.
\*  - A satisfiable range 'bytes=a-b' is answered with bytes a..min(b, L-1)
\*    and 'bytes a-e/L'; a range starting past the object is refused.
\*  - A range header that is no valid byte range is ignored: the whole object
\*    comes back, without a Content-Range.
ByteRangeSpec(header) ==
    LET unit == <<"b", "y", "t", "e", "s", "=">>
        rest == SubSeq(header, Len(unit) + 1, Len(header))
        dash == IndexOf(rest, "-")
        from == SubSeq(rest, 1, dash - 1)
        to   == SubSeq(rest, dash + 1, Len(rest))
    IN IF /\ Len(header) > Len(unit)
          /\ SubSeq(header, 1, Len(unit)) = unit
          /\ dash > 1
          /\ to # <<>>
          /\ AllDigits(from)
          /\ AllDigits(to)
          /\ DigitsToNat(from) <= DigitsToNat(to)
       THEN Some([first |-> DigitsToNat(from), last |-> DigitsToNat(to)])
       ELSE undefined

StoreAnswers(req, len) ==
    IF req.Range # undefined /\ req.PartNumber # undefined THEN {}
    ELSE IF req.PartNumber # undefined THEN
        LET n == Val(req.PartNumber)
            a == (n - 1) * UploadPartSize
            b == Min(n * UploadPartSize, len) - 1
        IN IF n >= 1 /\ a < len
           THEN {Success(Bytes(a, b), Some(ContentRangeOf(a, b, len)))}
           ELSE {}
    ELSE IF req.Range # undefined THEN
        LET spec == ByteRangeSpec(Val(req.Range))
        IN IF spec # undefined
           THEN LET a == Val(spec).first
                    b == Min(Val(spec).last, len - 1)
                IN IF a < len
                   THEN {Success(Bytes(a, b), Some(ContentRangeOf(a, b, len)))}
                   ELSE {}
           ELSE {Success(Bytes(0, len - 1), undefined)}
    ELSE {Success(Bytes(0, len - 1), undefined)}

\* ------------------------------------------------------------------ state
VARIABLES
    maxPartSize,     \* this.maxPartSize
    maxConcurrency,  \* this.maxConcurrency
    objLen,          \* length of the object the store holds
    request,         \* the request as the caller built it
    params,          \* the request object, as the code has rewritten it so far
    calls,           \* every client.getObject call so far, in call order
    gos,             \* getObjectStream: notcalled, awaiting, resolved, rejected
    contentLength,   \* getObjectStream's local contentLength
    byteOffset,      \* getObjectStream's local byteOffset
    stream,          \* the ManagedDownloaderStream (destinationStream)
    dbp,             \* the frame of downloadByParts
    applied,         \* the last call of an exported function on its own
    second           \* a second, overlapping call of getObjectStream

vars == <<maxPartSize, maxConcurrency, objLen, request, params, calls, gos,
          contentLength, byteOffset, stream, dbp, applied, second>>

\* ------------------------------------------------------------------ inputs
RangeString(s, e) == BytesEq \o NumToStr(s) \o <<"-">> \o NumToStr(e)

WellFormedRanges == {RangeString(s, e) : s \in 0..MaxRangeByte, e \in 0..MaxRangeByte}

MalformedRanges ==
    { <<>>,
      <<"s", "r", "u", "t", "i">>,
      <<"1", "-", "3">>,
      BytesEq \o <<"1", ":", "3">>,
      BytesEq \o <<"1", "-">>,
      BytesEq \o <<"-", "3">>,
      BytesEq \o <<"1", "-", "3", "x">> }

Ranges == {undefined} \cup {Some(r) : r \in WellFormedRanges \cup MalformedRanges}

\* Part numbers are the store's: positive integers.
PartNumbers == {undefined} \cup {Some(n) : n \in 1..MaxPartNumber}

Names == {undefined, Some(""), Some("name")}

\* Requests that name a bucket and a key, with every range and part number;
\* and requests that lack one of them, with a sample of the rest.
Requests ==
    {[Bucket |-> Some("name"), Key |-> Some("name"), Range |-> r, PartNumber |-> n] :
        r \in Ranges, n \in PartNumbers}
    \cup
    {[Bucket |-> b, Key |-> k, Range |-> r, PartNumber |-> n] :
        b \in Names, k \in Names,
        r \in {undefined, Some(RangeString(0, 1))}, n \in {undefined, Some(1)}}

\* ------------------------------------------------------------------ the stream
NewStream == [mimeType |-> undefined, contentLength |-> undefined, chunks |-> <<>>,
              ended |-> 0, errors |-> 0, needDrain |-> FALSE]

\* destinationStream.write(body) of the payload of call i; ready is what the
\* call returns, and a false return makes the stream owe a 'drain' event.
Write(st, i, body, ready) ==
    [st EXCEPT !.chunks = Append(@, [call |-> i, Body |-> body]),
               !.needDrain = @ \/ ~ready]

\* destinationStream.end()
End(st) == [st EXCEPT !.ended = @ + 1]

\* destinationStream.emit('error', err)
EmitError(st) == [st EXCEPT !.errors = @ + 1]

\* ------------------------------------------------------------------ calls
\* client.getObject(ps).promise(): the call is logged with the request object
\* as it is at the call; part is the part index the caller computed it for.
NewCall(ps, part) ==
    [params |-> ps, part |-> part, status |-> "pending", Body |-> <<>>,
     ContentRange |-> undefined, ContentType |-> undefined]

\* No exported function has been called on its own.
NoApplication == [fn |-> "none", args |-> <<>>, result |-> <<>>]

NoFrame == [pc |-> "notcalled", contentLength |-> 0, byteOffset |-> 0,
            startingPart |-> 0, numParts |-> 0, queue |-> <<>>, awaited |-> 0,
            numDownloads |-> 0, currentPart |-> 0]

\* A call of getObjectStream that has not been made: the request object it
\* will be given (own: an object of its own; otherwise the very object the
\* first call is given), and the locals and the stream it will create.
NotCalled(req, own) ==
    [own |-> own, params |-> req, calls |-> <<>>, gos |-> "notcalled",
     contentLength |-> undefined, byteOffset |-> undefined,
     stream |-> NewStream, dbp |-> NoFrame]

Init ==
    /\ maxPartSize \in 1..MaxPartSize
    /\ maxConcurrency \in 1..MaxConcurrency
    /\ objLen \in 0..MaxObjLen
    /\ request \in Requests
    /\ params = request
    /\ calls = <<>>
    /\ gos = "notcalled"
    /\ contentLength = undefined
    /\ byteOffset = undefined
    /\ stream = NewStream
    /\ dbp = NoFrame
    /\ applied = NoApplication
    /\ second = NotCalled(request, TRUE)

\* ------------------------------------------------------------------ getObjectStream
\* Mutant: a request with both a Range and a PartNumber is refused at the
\* check of line 151, before any fetch.
PrepareRequestChecked(ps) ==
    [error |-> \/ ~TruthyName(ps.Bucket) \/ ~TruthyName(ps.Key)
               \/ (TruthyStr(ps.Range) /\ TruthyNum(ps.PartNumber)),
     params |-> ps, contentLength |-> undefined, byteOffset |-> undefined]

\* Lines 151-167: the check of the request and the rewriting of its Range.
\* error is TRUE when the code throws; otherwise params, contentLength and
\* byteOffset are as the code leaves them before the bootstrap fetch.
PrepareRequest(ps) ==
    IF ~TruthyName(ps.Bucket) \/ ~TruthyName(ps.Key)
    THEN [error |-> TRUE, params |-> ps, contentLength |-> undefined,
          byteOffset |-> undefined]
    ELSE IF TruthyStr(ps.Range) /\ ~TruthyNum(ps.PartNumber)
    THEN LET rangeInfo == getInformationFromRange(Val(ps.Range))
         IN IF rangeInfo = throw
            THEN [error |-> TRUE, params |-> ps, contentLength |-> undefined,
                  byteOffset |-> undefined]
            ELSE [error |-> FALSE,
                  params |-> [ps EXCEPT !.Range =
                                Some(getRangeOfPart(0, Val(rangeInfo).length, maxPartSize,
                                                    Val(rangeInfo).startByte))],
                  contentLength |-> Some(Val(rangeInfo).length),
                  byteOffset |-> Some(Val(rangeInfo).startByte)]
    ELSE IF ~TruthyNum(ps.PartNumber)
    THEN [error |-> FALSE,
          params |-> [ps EXCEPT !.Range =
                        Some(BytesEq \o <<"0", "-">> \o NumToStr(maxPartSize - 1))],
          contentLength |-> undefined, byteOffset |-> undefined]
    ELSE [error |-> FALSE, params |-> ps, contentLength |-> undefined,
          byteOffset |-> undefined]

\* The call of getObjectStream, up to the await of the bootstrap fetch.
GetObjectStream ==
    /\ gos = "notcalled"
    /\ \E prep \in {PrepareRequest(params)} :
          IF prep.error
          THEN /\ gos' = "rejected"
               /\ UNCHANGED <<params, calls, contentLength, byteOffset>>
          ELSE /\ gos' = "awaiting"
               /\ params' = prep.params
               /\ contentLength' = prep.contentLength
               /\ byteOffset' = prep.byteOffset
               /\ calls' = <<NewCall(prep.params, 0)>>
    /\ UNCHANGED <<applied, second, maxPartSize, maxConcurrency, objLen, request, stream, dbp>>

\* ------------------------------------------------------------------ downloadByParts
\* Mutant: the handles still queued are not counted against the limit.
numRequestsIgnoringQueue(queueLength, currentPart, numParts) ==
    Min(maxConcurrency, numParts - currentPart)

\* Mutant: the parts left are not counted, the window is always filled.
numRequestsUncapped(queueLength, currentPart, numParts) ==
    maxConcurrency - queueLength

\* Mutant: an iteration issues one fetch at most.
numRequestsOneAtATime(queueLength, currentPart, numParts) ==
    Min(1, Min(maxConcurrency - queueLength, numParts - currentPart))

\* Lines 219-222: how many fetches one iteration issues.
numRequests(queueLength, currentPart, numParts) ==
    Min(maxConcurrency - queueLength, numParts - currentPart)

\* Mutant: the loop stops one part early.
MoreToDownloadButLast(d) == d.numDownloads < d.numParts - d.startingPart - 1

\* Line 217: the loop condition.
MoreToDownload(d) == d.numDownloads < d.numParts - d.startingPart

\* Mutant: the fetches of one iteration all carry the request object as the
\* last of them left it (a client that reads the object after the loop).
IssuedCallsSharingRequest(d, ps) ==
    LET n == numRequests(Len(d.queue), d.currentPart, d.numParts)
    IN [i \in 1..n |->
          NewCall([ps EXCEPT !.Range =
                     Some(getRangeOfPart(d.currentPart + n - 1, d.contentLength,
                                         maxPartSize, d.byteOffset))],
                  d.currentPart + i - 1)]

\* Lines 223-231: the fetches one iteration issues, for the parts from
\* currentPart on, each with the request object as rewritten for it.
IssuedCalls(d, ps) ==
    LET n == numRequests(Len(d.queue), d.currentPart, d.numParts)
    IN [i \in 1..n |->
          NewCall([ps EXCEPT !.Range =
                     Some(getRangeOfPart(d.currentPart + i - 1, d.contentLength,
                                         maxPartSize, d.byteOffset))],
                  d.currentPart + i - 1)]

\* Mutant: the last handle of the queue is taken (pop for shift).
ShiftLast(q) == [head |-> q[Len(q)], rest |-> SubSeq(q, 1, Len(q) - 1)]

\* Mutant: the head is read and left in the queue (queue[0] for shift).
ShiftKeepingHead(q) == [head |-> Head(q), rest |-> q]

\* Line 232, queue.shift(): the head of the queue and what is left of it.
Shift(q) == [head |-> Head(q), rest |-> Tail(q)]

\* Lines 217-243 from the top of the loop to the next await or the return:
\* the frame d, the call log cs, the request object ps and the stream st as
\* they are then.  With nothing to await, queue.shift() is undefined and the
\* read of its Body throws into the catch block.
RunLoop(d, cs, ps, st) ==
    IF MoreToDownload(d)
    THEN LET issued == IssuedCalls(d, ps)
             n      == Len(issued)
             q      == d.queue \o [i \in 1..n |-> Len(cs) + i]
             ps2    == IF n > 0 THEN issued[n].params ELSE ps
         IN IF q = <<>>
            THEN [dbp |-> [d EXCEPT !.pc = "returned"], calls |-> cs, params |-> ps,
                  stream |-> EmitError(st)]
            ELSE [dbp |-> [d EXCEPT !.pc = "awaitHead", !.queue = Shift(q).rest,
                                    !.awaited = Shift(q).head, !.currentPart = @ + n],
                  calls |-> cs \o issued, params |-> ps2, stream |-> st]
    ELSE [dbp |-> [d EXCEPT !.pc = "returned"], calls |-> cs, params |-> ps,
          stream |-> End(st)]

\* Mutant: the byte offset of the client range is not handed over.
NewFrameWithoutOffset(length, offset, startingPart) ==
    [pc |-> "running", contentLength |-> length, byteOffset |-> 0,
     startingPart |-> startingPart, numParts |-> Ceil(length, maxPartSize),
     queue |-> <<>>, awaited |-> 0, numDownloads |-> 0, currentPart |-> startingPart]

\* Lines 204-216: the frame a call of downloadByParts starts with.
NewFrame(length, offset, startingPart) ==
    [pc |-> "running", contentLength |-> length,
     byteOffset |-> IF offset = undefined THEN 0 ELSE Val(offset),
     startingPart |-> startingPart, numParts |-> Ceil(length, maxPartSize),
     queue |-> <<>>, awaited |-> 0, numDownloads |-> 0, currentPart |-> startingPart]

\* Mutant: the comparison with the part size is not strict.
StartsPipelineAtPartSize(length, ps) ==
    length # NaN /\ Val(length) >= maxPartSize /\ ~TruthyNum(ps.PartNumber)

\* Mutant: the part number is not looked at.
StartsPipelineIgnoringPartNumber(length, ps) ==
    length # NaN /\ Val(length) > maxPartSize

\* Mutant: downloadByParts is never called, the stream is ended after the
\* bootstrap payload.
StartsPipelineNever(length, ps) == FALSE

\* Lines 175-176: whether getObjectStream hands over to downloadByParts.
StartsPipeline(length, ps) ==
    length # NaN /\ Val(length) > maxPartSize /\ ~TruthyNum(ps.PartNumber)

\* Mutant: the content length is always read from the ContentRange of the
\* bootstrap result.
ResolvedLengthFromResult(known, getObjectData) ==
    IF getObjectData.ContentRange = undefined
    THEN [error |-> TRUE, value |-> undefined]
    ELSE LET total == SplitSecond(Val(getObjectData.ContentRange), "/")
         IN [error |-> FALSE,
             value |-> IF total = undefined THEN NaN ELSE parseInt(Val(total))]

\* Lines 170-171: the content length after the bootstrap fetch; the read of
\* a missing ContentRange throws a TypeError.
ResolvedLength(known, getObjectData) ==
    IF TruthyNum(known) THEN [error |-> FALSE, value |-> known]
    ELSE IF getObjectData.ContentRange = undefined
    THEN [error |-> TRUE, value |-> undefined]
    ELSE LET total == SplitSecond(Val(getObjectData.ContentRange), "/")
         IN [error |-> FALSE,
             value |-> IF total = undefined THEN NaN ELSE parseInt(Val(total))]

\* Mutant: downloadByParts is awaited (await this.downloadByParts(...)), so
\* getObjectStream does not return while the pipeline runs.
BootstrapResolvesAwaitingPipeline ==
    /\ gos = "awaiting"
    /\ calls[1].status = "ok"
    /\ \E len \in {ResolvedLength(contentLength, calls[1])} :
         IF len.error
         THEN /\ gos' = "rejected"
              /\ UNCHANGED <<params, calls, contentLength, stream, dbp>>
         ELSE \E ready \in BOOLEAN :
              \E st \in {Write([stream EXCEPT !.mimeType = calls[1].ContentType,
                                               !.contentLength = len.value],
                                1, calls[1].Body, ready)} :
              \E run \in {IF StartsPipeline(len.value, params)
                           THEN RunLoop(NewFrame(Val(len.value), byteOffset, 1),
                                        calls, params, st)
                           ELSE [dbp |-> dbp, calls |-> calls, params |-> params,
                                 stream |-> End(st)]} :
                 /\ gos' = IF StartsPipeline(len.value, params)
                           THEN "awaitingPipeline" ELSE "resolved"
                 /\ contentLength' = len.value
                 /\ stream' = run.stream
                 /\ dbp' = run.dbp
                 /\ calls' = run.calls
                 /\ params' = run.params
    /\ UNCHANGED <<applied, second, maxPartSize, maxConcurrency, objLen, request, byteOffset>>

\* The bootstrap fetch succeeded: lines 170-184, and with them the start of
\* downloadByParts up to its first await.
BootstrapResolves ==
    /\ gos = "awaiting"
    /\ calls[1].status = "ok"
    /\ \E len \in {ResolvedLength(contentLength, calls[1])} :
         IF len.error
         THEN /\ gos' = "rejected"
              /\ UNCHANGED <<params, calls, contentLength, stream, dbp>>
         ELSE \E ready \in BOOLEAN :
              \E st \in {Write([stream EXCEPT !.mimeType = calls[1].ContentType,
                                               !.contentLength = len.value],
                                1, calls[1].Body, ready)} :
              \E run \in {IF StartsPipeline(len.value, params)
                           THEN RunLoop(NewFrame(Val(len.value), byteOffset, 1),
                                        calls, params, st)
                           ELSE [dbp |-> dbp, calls |-> calls, params |-> params,
                                 stream |-> End(st)]} :
                 /\ gos' = "resolved"
                 /\ contentLength' = len.value
                 /\ stream' = run.stream
                 /\ dbp' = run.dbp
                 /\ calls' = run.calls
                 /\ params' = run.params
    /\ UNCHANGED <<applied, second, maxPartSize, maxConcurrency, objLen, request, byteOffset>>

\* Mutant: the failure of the bootstrap fetch is swallowed and the (empty)
\* stream is returned.
BootstrapRejectsSwallowed ==
    /\ gos = "awaiting"
    /\ calls[1].status = "failed"
    /\ gos' = "resolved"
    /\ stream' = End(stream)
    /\ UNCHANGED <<applied, second, maxPartSize, maxConcurrency, objLen, request, params, calls,
                   contentLength, byteOffset, dbp>>

\* Mutant: the failure of the bootstrap fetch is also reported on the stream.
BootstrapRejectsOnStream ==
    /\ gos = "awaiting"
    /\ calls[1].status = "failed"
    /\ gos' = "rejected"
    /\ stream' = EmitError(stream)
    /\ UNCHANGED <<applied, second, maxPartSize, maxConcurrency, objLen, request, params, calls,
                   contentLength, byteOffset, dbp>>

\* The bootstrap fetch failed: the await at line 169 throws.
BootstrapRejects ==
    /\ gos = "awaiting"
    /\ calls[1].status = "failed"
    /\ gos' = "rejected"
    /\ UNCHANGED <<applied, second, maxPartSize, maxConcurrency, objLen, request, params, calls,
                   contentLength, byteOffset, stream, dbp>>

\* Mutant: the listener is registered a turn after the refused write, and
\* the 'drain' event has fired in between.
HeadResolvesThenYields ==
    /\ dbp.pc = "awaitHead"
    /\ calls[dbp.awaited].status = "ok"
    /\ \E ready \in BOOLEAN :
       \E st \in {Write(stream, dbp.awaited, calls[dbp.awaited].Body, ready)} :
       \E run \in {IF ready
                    THEN RunLoop([dbp EXCEPT !.numDownloads = @ + 1], calls, params, st)
                    ELSE [dbp |-> [dbp EXCEPT !.pc = "awaitDrain"], calls |-> calls,
                          params |-> params,
                          stream |-> [st EXCEPT !.needDrain = FALSE]]} :
          /\ stream' = run.stream
          /\ dbp' = run.dbp
          /\ calls' = run.calls
          /\ params' = run.params
    /\ UNCHANGED <<applied, second, maxPartSize, maxConcurrency, objLen, request, gos,
                   contentLength, byteOffset>>

\* Lines 232-236 with the awaited head fulfilled: its payload is written; a
\* false return suspends on the 'drain' event, a true one goes on to line 236
\* and round the loop.
HeadResolves ==
    /\ dbp.pc = "awaitHead"
    /\ calls[dbp.awaited].status = "ok"
    /\ \E ready \in BOOLEAN :
       \E st \in {Write(stream, dbp.awaited, calls[dbp.awaited].Body, ready)} :
       \E run \in {IF ready
                    THEN RunLoop([dbp EXCEPT !.numDownloads = @ + 1], calls, params, st)
                    ELSE [dbp |-> [dbp EXCEPT !.pc = "awaitDrain"], calls |-> calls,
                          params |-> params, stream |-> st]} :
          /\ stream' = run.stream
          /\ dbp' = run.dbp
          /\ calls' = run.calls
          /\ params' = run.params
    /\ UNCHANGED <<applied, second, maxPartSize, maxConcurrency, objLen, request, gos, contentLength,
                   byteOffset>>

\* Mutant: the catch block reports the error and the loop goes on.
HeadRejectsAndGoesOn ==
    /\ dbp.pc = "awaitHead"
    /\ calls[dbp.awaited].status = "failed"
    /\ \E run \in {RunLoop([dbp EXCEPT !.numDownloads = @ + 1], calls, params,
                           EmitError(stream))} :
          /\ stream' = run.stream
          /\ dbp' = run.dbp
          /\ calls' = run.calls
          /\ params' = run.params
    /\ UNCHANGED <<applied, second, maxPartSize, maxConcurrency, objLen, request, gos, contentLength,
                   byteOffset>>

\* Mutant: the catch block returns without emitting the error.
HeadRejectsSilently ==
    /\ dbp.pc = "awaitHead"
    /\ calls[dbp.awaited].status = "failed"
    /\ dbp' = [dbp EXCEPT !.pc = "returned"]
    /\ UNCHANGED <<applied, second, maxPartSize, maxConcurrency, objLen, request, params,
                   calls, gos, contentLength, byteOffset, stream>>

\* Mutant: after the error is emitted the stream is ended as well.
HeadRejectsThenEnds ==
    /\ dbp.pc = "awaitHead"
    /\ calls[dbp.awaited].status = "failed"
    /\ stream' = End(EmitError(stream))
    /\ dbp' = [dbp EXCEPT !.pc = "returned"]
    /\ UNCHANGED <<applied, second, maxPartSize, maxConcurrency, objLen, request, params,
                   calls, gos, contentLength, byteOffset>>

\* Lines 237-240 with the awaited head rejected.
HeadRejects ==
    /\ dbp.pc = "awaitHead"
    /\ calls[dbp.awaited].status = "failed"
    /\ stream' = EmitError(stream)
    /\ dbp' = [dbp EXCEPT !.pc = "returned"]
    /\ UNCHANGED <<applied, second, maxPartSize, maxConcurrency, objLen, request, params, calls, gos,
                   contentLength, byteOffset>>

\* Mutant: the 'drain' event finds no listener, also when downloadByParts
\* waits for it.
DrainUnheard ==
    /\ stream.needDrain
    /\ stream' = [stream EXCEPT !.needDrain = FALSE]
    /\ UNCHANGED <<applied, second, maxPartSize, maxConcurrency, objLen, request, params, calls, gos,
                   contentLength, byteOffset, dbp>>

\* The stream emits 'drain' (its reader has emptied it).  A downloadByParts
\* waiting at line 234 goes on to line 236 and round the loop; with no
\* listener the event is lost.
Drain ==
    /\ stream.needDrain
    /\ \E st \in {[stream EXCEPT !.needDrain = FALSE]} :
       \E run \in {IF dbp.pc = "awaitDrain"
                    THEN RunLoop([dbp EXCEPT !.numDownloads = @ + 1], calls, params, st)
                    ELSE [dbp |-> dbp, calls |-> calls, params |-> params,
                          stream |-> st]} :
          /\ stream' = run.stream
          /\ dbp' = run.dbp
          /\ calls' = run.calls
          /\ params' = run.params
    /\ UNCHANGED <<applied, second, maxPartSize, maxConcurrency, objLen, request, gos, contentLength,
                   byteOffset>>

\* ------------------------------------------------------------------ the store acts
\* The store answers a pending fetch ...
FetchSucceeds ==
    /\ \E i \in 1..Len(calls) :
         /\ calls[i].status = "pending"
         /\ \E answer \in StoreAnswers(calls[i].params, objLen) :
              calls' = [calls EXCEPT ![i] =
                          [@ EXCEPT !.status = answer.status, !.Body = answer.Body,
                                    !.ContentRange = answer.ContentRange,
                                    !.ContentType = answer.ContentType]]
    /\ UNCHANGED <<applied, second, maxPartSize, maxConcurrency, objLen, request, params, gos,
                   contentLength, byteOffset, stream, dbp>>

\* ... or the fetch fails (the store refuses it, or the transport breaks).
FetchFails ==
    /\ \E i \in 1..Len(calls) :
         /\ calls[i].status = "pending"
         /\ calls' = [calls EXCEPT ![i] = [@ EXCEPT !.status = "failed"]]
    /\ UNCHANGED <<applied, second, maxPartSize, maxConcurrency, objLen, request, params, gos,
                   contentLength, byteOffset, stream, dbp>>

Next ==
    \/ GetObjectStream
    \/ BootstrapResolves
    \/ BootstrapRejects
    \/ HeadResolves
    \/ HeadRejects
    \/ Drain
    \/ FetchSucceeds
    \/ FetchFails

Spec == Init /\ [][Next]_vars

\* The same machine with the progress the pipeline's environment provides:
\* the event loop runs the continuation of downloadByParts once the promise
\* it awaits is settled, the store settles every fetch it was sent, and the
\* reader of the stream drains it after a refused write.
SpecFair ==
    /\ Spec
    /\ WF_vars(HeadResolves)
    /\ WF_vars(HeadRejects)
    /\ WF_vars(Drain)
    /\ WF_vars(FetchFails \/ FetchSucceeds)

\* The same machine with only the progress of getObjectStream itself: the
\* event loop resumes it once the bootstrap fetch it awaits is settled.
\* Nothing is assumed of the store, of the pipeline or of the reader.  Its
\* downloads are those of objects and client ranges within MaxShortLen bytes.
InitShort ==
    /\ Init
    /\ objLen <= MaxShortLen
    /\ \/ request.Range = undefined
       \/ Val(request.Range) \in MalformedRanges
       \/ \E s \in 0..MaxShortLen, e \in 0..MaxShortLen :
             request.Range = Some(RangeString(s, e))

SpecBootstrapFair ==
    /\ InitShort
    /\ [][Next]_vars
    /\ WF_vars(BootstrapResolves)
    /\ WF_vars(BootstrapRejects)

\* ------------------------------------------------------------------ two calls
\* getObjectStream called a second time on the same ManagedDownloader while
\* the first download is under way.  The stream of a call (line 148), its
\* locals (lines 149-150) and the locals of its downloadByParts (lines
\* 211-216) are created by the call; this.maxPartSize, this.maxConcurrency
\* and the client are the downloader's, and the request object is the
\* caller's: the second call is given an object of its own or the object the
\* first call was given, and the code writes the Range of whichever it is.
SecondParams == IF second.own THEN second.params ELSE params

\* The first call has been made and its download is not over.
FirstUnderWay == gos = "awaiting" \/ dbp.pc \in {"awaitHead", "awaitDrain"}

\* The state after a step of the second call.
SecondBecomes(g, ps, cs, len, off, st, d) ==
    /\ second' = [second EXCEPT !.gos = g, !.calls = cs, !.contentLength = len,
                                !.byteOffset = off, !.stream = st, !.dbp = d,
                                !.params = IF second.own THEN ps ELSE @]
    /\ params' = IF second.own THEN params ELSE ps
    /\ UNCHANGED <<applied, maxPartSize, maxConcurrency, objLen, request, calls, gos,
                   contentLength, byteOffset, stream, dbp>>

\* The second call of getObjectStream, up to the await of its bootstrap fetch.
SecondGetObjectStream ==
    /\ second.gos = "notcalled"
    /\ FirstUnderWay
    /\ \E prep \in {PrepareRequest(SecondParams)} :
          IF prep.error
          THEN SecondBecomes("rejected", SecondParams, second.calls, undefined,
                             undefined, second.stream, second.dbp)
          ELSE SecondBecomes("awaiting", prep.params, <<NewCall(prep.params, 0)>>,
                             prep.contentLength, prep.byteOffset, second.stream,
                             second.dbp)

\* Lines 170-184 of the second call, with the start of its downloadByParts.
SecondBootstrapResolves ==
    /\ second.gos = "awaiting"
    /\ second.calls[1].status = "ok"
    /\ \E len \in {ResolvedLength(second.contentLength, second.calls[1])} :
         IF len.error
         THEN SecondBecomes("rejected", SecondParams, second.calls,
                            second.contentLength, second.byteOffset,
                            second.stream, second.dbp)
         ELSE \E ready \in BOOLEAN :
              \E st \in {Write([second.stream EXCEPT
                                   !.mimeType = second.calls[1].ContentType,
                                   !.contentLength = len.value],
                                1, second.calls[1].Body, ready)} :
              \E run \in {IF StartsPipeline(len.value, SecondParams)
                           THEN RunLoop(NewFrame(Val(len.value), second.byteOffset, 1),
                                        second.calls, SecondParams, st)
                           ELSE [dbp |-> second.dbp, calls |-> second.calls,
                                 params |-> SecondParams, stream |-> End(st)]} :
                 SecondBecomes("resolved", run.params, run.calls, len.value,
                               second.byteOffset, run.stream, run.dbp)

\* The await at line 169 of the second call throws.
SecondBootstrapRejects ==
    /\ second.gos = "awaiting"
    /\ second.calls[1].status = "failed"
    /\ SecondBecomes("rejected", SecondParams, second.calls, second.contentLength,
                     second.byteOffset, second.stream, second.dbp)

\* Lines 232-236 of the second download, the awaited head fulfilled.
SecondHeadResolves ==
    /\ second.dbp.pc = "awaitHead"
    /\ second.calls[second.dbp.awaited].status = "ok"
    /\ \E ready \in BOOLEAN :
       \E st \in {Write(second.stream, second.dbp.awaited,
                        second.calls[second.dbp.awaited].Body, ready)} :
       \E run \in {IF ready
                    THEN RunLoop([second.dbp EXCEPT !.numDownloads = @ + 1],
                                 second.calls, SecondParams, st)
                    ELSE [dbp |-> [second.dbp EXCEPT !.pc = "awaitDrain"],
                          calls |-> second.calls, params |-> SecondParams,
                          stream |-> st]} :
          SecondBecomes(second.gos, run.params, run.calls, second.contentLength,
                        second.byteOffset, run.stream, run.dbp)

\* Lines 237-240 of the second download, the awaited head rejected.
SecondHeadRejects ==
    /\ second.dbp.pc = "awaitHead"
    /\ second.calls[second.dbp.awaited].status = "failed"
    /\ SecondBecomes(second.gos, SecondParams, second.calls, second.contentLength,
                     second.byteOffset, EmitError(second.stream),
                     [second.dbp EXCEPT !.pc = "returned"])

\* The stream of the second download emits 'drain'.
SecondDrain ==
    /\ second.stream.needDrain
    /\ \E st \in {[second.stream EXCEPT !.needDrain = FALSE]} :
       \E run \in {IF second.dbp.pc = "awaitDrain"
                    THEN RunLoop([second.dbp EXCEPT !.numDownloads = @ + 1],
                                 second.calls, SecondParams, st)
                    ELSE [dbp |-> second.dbp, calls |-> second.calls,
                          params |-> SecondParams, stream |-> st]} :
          SecondBecomes(second.gos, run.params, run.calls, second.contentLength,
                        second.byteOffset, run.stream, run.dbp)

\* The store answers a pending fetch of the second download, or the fetch
\* fails.
SecondFetchSucceeds ==
    \E i \in 1..Len(second.calls) :
       /\ second.calls[i].status = "pending"
       /\ \E answer \in StoreAnswers(second.calls[i].params, objLen) :
            SecondBecomes(second.gos, SecondParams,
                          [second.calls EXCEPT ![i] =
                              [@ EXCEPT !.status = answer.status,
                                        !.Body = answer.Body,
                                        !.ContentRange = answer.ContentRange,
                                        !.ContentType = answer.ContentType]],
                          second.contentLength, second.byteOffset, second.stream,
                          second.dbp)

SecondFetchFails ==
    \E i \in 1..Len(second.calls) :
       /\ second.calls[i].status = "pending"
       /\ SecondBecomes(second.gos, SecondParams,
                        [second.calls EXCEPT ![i] = [@ EXCEPT !.status = "failed"]],
                        second.contentLength, second.byteOffset, second.stream,
                        second.dbp)

\* Two downloads of the whole of one object of 1..MaxPairLen bytes, with part
\* sizes and concurrencies up to MaxPairSize.
InitPair ==
    /\ maxPartSize \in 1..MaxPairSize
    /\ maxConcurrency \in 1..MaxPairSize
    /\ objLen \in 1..MaxPairLen
    /\ request = [Bucket |-> Some("name"), Key |-> Some("name"),
                  Range |-> undefined, PartNumber |-> undefined]
    /\ params = request
    /\ calls = <<>>
    /\ gos = "notcalled"
    /\ contentLength = undefined
    /\ byteOffset = undefined
    /\ stream = NewStream
    /\ dbp = NoFrame
    /\ applied = NoApplication
    /\ second \in {NotCalled(request, own) : own \in BOOLEAN}

NextPair ==
    \/ GetObjectStream
    \/ BootstrapResolves
    \/ BootstrapRejects
    \/ HeadResolves
    \/ HeadRejects
    \/ Drain
    \/ FetchSucceeds
    \/ FetchFails
    \/ SecondGetObjectStream
    \/ SecondBootstrapResolves
    \/ SecondBootstrapRejects
    \/ SecondHeadResolves
    \/ SecondHeadRejects
    \/ SecondDrain
    \/ SecondFetchSucceeds
    \/ SecondFetchFails

SpecPair == InitPair /\ [][NextPair]_vars

\* ------------------------------------------------------------------ the exported functions
\* getRangeOfPart and getInformationFromRange called on their own, as the
\* unit tests call them; no download is under way.
InitAlone ==
    /\ maxPartSize = 1
    /\ maxConcurrency = 1
    /\ objLen = 0
    /\ request = [Bucket |-> undefined, Key |-> undefined, Range |-> undefined,
                  PartNumber |-> undefined]
    /\ params = request
    /\ calls = <<>>
    /\ gos = "notcalled"
    /\ contentLength = undefined
    /\ byteOffset = undefined
    /\ stream = NewStream
    /\ dbp = NoFrame
    /\ applied = NoApplication
    /\ second = NotCalled(request, TRUE)

\* byteOffset:number = 0, the default of the last parameter of getRangeOfPart.
byteOffsetOrDefault(offset) == IF offset = undefined THEN 0 ELSE Val(offset)

Offsets == {undefined} \cup {Some(b) : b \in 0..MaxRangeByte}

\* One call getRangeOfPart(partNum, totalObjectLength, maxPartSize[, byteOffset]).
CallGetRangeOfPart ==
    /\ applied = NoApplication
    /\ \E partNum \in 0..MaxIndex, total \in 0..MaxObjLen, size \in 1..MaxPartSize,
          offset \in Offsets :
          applied' = [fn |-> "getRangeOfPart",
                      args |-> <<partNum, total, size, offset>>,
                      result |-> getRangeOfPart(partNum, total, size,
                                                byteOffsetOrDefault(offset))]
    /\ UNCHANGED <<second, maxPartSize, maxConcurrency, objLen, request, params, calls, gos,
                   contentLength, byteOffset, stream, dbp>>

\* getRangeOfPart called for each part of a download of total bytes, part 0
\* (as at line 160) to the last (as at line 225), in order.
CallForEachPart ==
    /\ applied = NoApplication
    /\ \E total \in 1..MaxObjLen, size \in 1..MaxPartSize, offset \in Offsets :
          applied' = [fn |-> "getRangeOfPart, each part",
                      args |-> <<total, size, offset>>,
                      result |-> [i \in 1..Ceil(total, size) |->
                                    getRangeOfPart(i - 1, total, size,
                                                   byteOffsetOrDefault(offset))]]
    /\ UNCHANGED <<second, maxPartSize, maxConcurrency, objLen, request, params, calls, gos,
                   contentLength, byteOffset, stream, dbp>>

\* The JavaScript values an option may hold: undefined, null, the string of
\* a number, NaN, and the numbers n and n + 0.5.
JsUndefined == [type |-> "undefined", nan |-> FALSE, n |-> 0, half |-> FALSE]

JsNull == [type |-> "object", nan |-> FALSE, n |-> 0, half |-> FALSE]

JsString(n) == [type |-> "string", nan |-> FALSE, n |-> n, half |-> FALSE]

JsNaN == [type |-> "number", nan |-> TRUE, n |-> 0, half |-> FALSE]

JsNumber(n) == [type |-> "number", nan |-> FALSE, n |-> n, half |-> FALSE]

JsNumberAndHalf(n) == [type |-> "number", nan |-> FALSE, n |-> n, half |-> TRUE]

\* v < 1 for a value of type number (false for NaN).
LessThanOne(v) == ~v.nan /\ v.n < 1

\* The truthiness of a value, as the || of lines 121-122 reads it.
Truthy(v) ==
    CASE v.type = "undefined" -> FALSE
      [] v.type = "object"    -> FALSE
      [] v.type = "string"    -> TRUE
      [] v.type = "number"    -> ~v.nan /\ (v.n # 0 \/ v.half)

\* Lines 107-119: whether an option fails the check of the constructor.
OptionRefused(v) ==
    v # JsUndefined /\ (v.type # "number" \/ LessThanOne(v))

\* The constructor: the thrown Error, or the two fields of the new object.
constructor(client, options) ==
    IF ~client THEN throw
    ELSE IF OptionRefused(options.maxPartSize) THEN throw
    ELSE IF OptionRefused(options.maxConcurrency) THEN throw
    ELSE Some([maxPartSize |-> IF Truthy(options.maxPartSize)
                                THEN options.maxPartSize
                                ELSE JsNumber(DefaultMaxPartSize),
               maxConcurrency |-> IF Truthy(options.maxConcurrency)
                                   THEN options.maxConcurrency
                                   ELSE JsNumber(DefaultMaxConcurrency)])

OptionValues ==
    {JsUndefined, JsNull, JsNaN}
    \cup {JsString(n) : n \in 0..MaxPartSize}
    \cup {JsNumber(n) : n \in (0 - MaxPartSize)..MaxPartSize}
    \cup {JsNumberAndHalf(n) : n \in (0 - 1)..MaxPartSize}

\* One call new ManagedDownloader(client, options).
CallConstructor ==
    /\ applied = NoApplication
    /\ \E client \in BOOLEAN, size \in OptionValues, concurrency \in OptionValues :
          applied' = [fn |-> "constructor",
                      args |-> <<client, size, concurrency>>,
                      result |-> constructor(client, [maxPartSize |-> size,
                                                      maxConcurrency |-> concurrency])]
    /\ UNCHANGED <<second, maxPartSize, maxConcurrency, objLen, request, params, calls, gos,
                   contentLength, byteOffset, stream, dbp>>

\* The numbers the unit tests use next to the small ones.
SampleBytes == (0..MaxRangeByte) \cup {19, 100, 900}

SampleRanges ==
    {RangeString(s, e) : s \in SampleBytes, e \in SampleBytes}
    \cup MalformedRanges
    \cup { BytesEq \o <<"1", "9", "9", ":", "9", "9", "9">>,
           BytesEq \o <<" ", "1", "-", "3">>,
           BytesEq \o <<"1", "-", "3", "-", "5">>,
           <<"B", "y", "t", "e", "s", "=", "1", "-", "3">> }

\* One call getInformationFromRange(range).
CallGetInformationFromRange ==
    /\ applied = NoApplication
    /\ \E range \in SampleRanges :
          applied' = [fn |-> "getInformationFromRange",
                      args |-> <<range>>,
                      result |-> getInformationFromRange(range)]
    /\ UNCHANGED <<second, maxPartSize, maxConcurrency, objLen, request, params, calls, gos,
                   contentLength, byteOffset, stream, dbp>>

NextAlone ==
    \/ CallGetRangeOfPart
    \/ CallForEachPart
    \/ CallGetInformationFromRange
    \/ CallConstructor

SpecAlone == InitAlone /\ [][NextAlone]_vars

\* ------------------------------------------------------------------ vocabulary
\* The request names a bucket and a key.
Located == TruthyName(request.Bucket) /\ TruthyName(request.Key)

\* The request carries a client range and no part number / a part number.
HasRange == TruthyStr(request.Range)

HasPartNumber == TruthyNum(request.PartNumber)

\* The pipeline (downloadByParts) has been started.
PipelineStarted == dbp.pc # "notcalled"

\* The byte range of part i of this download, as start and end offsets.
PartStart(i) == (i * maxPartSize) + dbp.byteOffset

PartEnd(i) == Min(dbp.contentLength, (i + 1) * maxPartSize) + dbp.byteOffset - 1

\* All payload bytes written to the stream so far, in write order.
RECURSIVE Flatten(_)
Flatten(chunks) == IF chunks = <<>> THEN <<>>
                   ELSE Flatten(SubSeq(chunks, 1, Len(chunks) - 1))
                        \o chunks[Len(chunks)].Body

Delivered == Flatten(stream.chunks)

\* ------------------------------------------------------------------ claims

\* C1: whatever the concurrency (also above the number of parts) and
\* whatever the order in which the fetches in flight complete, the payloads
\* downloadByParts writes are those of the parts in ascending part index,
\* each exactly once: the i-th chunk on the stream is the payload of part
\* i-1 (the store's bytes of that part's range), and when the pipeline ends
\* the stream normally every part has been written.
C1_AscendingOrder ==
    PipelineStarted =>
        /\ \A i \in 1..Len(stream.chunks) :
              /\ calls[stream.chunks[i].call].part = i - 1
              /\ stream.chunks[i].Body =
                    Bytes(PartStart(i - 1), Min(PartEnd(i - 1), objLen - 1))
        /\ (stream.ended > 0 => Len(stream.chunks) = dbp.numParts)

C1_Witness ==
    /\ dbp.pc = "returned"
    /\ stream.ended = 1
    /\ dbp.numParts >= 3
    /\ maxConcurrency > dbp.numParts

\* C2: a fetch failure in the pipeline.  A part whose fetch failed, and every
\* part after it, is never written, and the stream is never ended normally.
\* When the loop meets the failure at the head of the queue (part k, then the
\* lowest failed part), exactly the parts below k have been written, each
\* once and in order, and the stream has been given one error; from then on
\* nothing is written, no fetch is issued and the stream is not ended, also
\* when later fetches complete successfully.
C2_NeverWritten ==
    \A k \in 2..Len(calls) :
        calls[k].status = "failed" =>
            /\ \A i \in 1..Len(stream.chunks) :
                  calls[stream.chunks[i].call].part < calls[k].part
            /\ stream.ended = 0

C2_AtAbort ==
    stream.errors > 0 =>
        /\ dbp.pc = "returned"
        /\ stream.errors = 1
        /\ stream.ended = 0
        /\ calls[dbp.awaited].status = "failed"
        /\ \A j \in 1..(dbp.awaited - 1) : calls[j].status = "ok"
        /\ Len(stream.chunks) = calls[dbp.awaited].part
        /\ \A i \in 1..Len(stream.chunks) :
              calls[stream.chunks[i].call].part = i - 1

C2_AfterAbort ==
    stream.errors > 0 =>
        /\ Len(calls') = Len(calls)
        /\ stream'.chunks = stream.chunks
        /\ stream'.ended = 0
        /\ stream'.errors = stream.errors

C2_FailureStopsPipeline ==
    /\ [](C2_NeverWritten /\ C2_AtAbort)
    /\ [][C2_AfterAbort]_vars

\* The pipeline aborted on part k >= 2 with a later part already fetched.
C2_Witness ==
    /\ stream.errors = 1
    /\ maxConcurrency >= 2
    /\ Len(stream.chunks) >= 2
    /\ \E j \in (dbp.awaited + 1)..Len(calls) : calls[j].status = "ok"

\* C4: when the bootstrap fetch fails, getObjectStream does not resolve (its
\* promise rejects, so no stream reaches the caller), downloadByParts is not
\* started, no fetch other than the bootstrap is ever issued, and the stream
\* is left untouched.
C4_BootstrapFailure ==
    (Len(calls) >= 1 /\ calls[1].status = "failed") =>
        /\ gos \in {"awaiting", "rejected"}
        /\ ~PipelineStarted
        /\ Len(calls) = 1
        /\ stream = NewStream

C4_Witness ==
    /\ gos = "rejected"
    /\ Len(calls) = 1
    /\ calls[1].status = "failed"

\* C5: with an integer concurrency limit c >= 1, the queue of outstanding
\* handles never holds more than c of them, and never more than c fetches
\* have been issued without their payload having been written.
C5_WindowBound ==
    /\ Len(dbp.queue) <= maxConcurrency
    /\ Len(calls) - Len(stream.chunks) <= maxConcurrency

\* The window is full again after parts have been consumed.
C5_Witness ==
    /\ dbp.pc = "awaitHead"
    /\ maxConcurrency >= 2
    /\ Len(stream.chunks) >= 2
    /\ Len(calls) - Len(stream.chunks) = maxConcurrency

\* C3: backpressure.  When the write of part k returns false the pipeline is
\* suspended with parts 0..k written once each and the stream owing a 'drain'.
\* Until that event no fetch is issued and nothing is written.  The event
\* resumes the loop in the state it was left in: part k is counted, the next
\* head awaited is part k+1 (or, after the last part, the stream is ended),
\* and with the progress of SpecFair a suspended pipeline always comes to
\* its end: every part delivered and the stream ended, unless a fetch fails.
AllDelivered == stream.ended = 1 /\ Len(stream.chunks) = dbp.numParts

C3_WhileSuspended ==
    dbp.pc = "awaitDrain" =>
        /\ stream.needDrain
        /\ stream.chunks[Len(stream.chunks)].call = dbp.awaited
        /\ Len(stream.chunks) = calls[dbp.awaited].part + 1
        /\ dbp.numDownloads = calls[dbp.awaited].part - dbp.startingPart

C3_StepWhileSuspended ==
    dbp.pc = "awaitDrain" =>
        \/ /\ dbp' = dbp
           /\ Len(calls') = Len(calls)
           /\ stream'.chunks = stream.chunks
           /\ stream'.needDrain
        \/ /\ ~stream'.needDrain
           /\ stream'.chunks = stream.chunks
           /\ dbp'.numDownloads = dbp.numDownloads + 1
           /\ \/ /\ dbp'.pc = "awaitHead"
                 /\ calls'[dbp'.awaited].part = calls[dbp.awaited].part + 1
              \/ /\ dbp'.pc = "returned"
                 /\ calls[dbp.awaited].part = dbp.numParts - 1
                 /\ stream'.ended = 1

C3_Backpressure ==
    /\ [](C3_WhileSuspended)
    /\ [][C3_StepWhileSuspended]_vars
    /\ (dbp.pc = "awaitDrain") ~> (AllDelivered \/ stream.errors > 0)

\* The pipeline is suspended after the write of a part that is neither the
\* first nor the last of its parts, with a fetch issued earlier completed
\* meanwhile.
C3_Witness ==
    /\ dbp.pc = "awaitDrain"
    /\ Len(stream.chunks) >= 3
    /\ Len(stream.chunks) < dbp.numParts
    /\ \E j \in 1..Len(dbp.queue) : calls[dbp.queue[j]].status = "ok"

\* The request asks for the whole object: no range and no part number.
WholeObject ==
    Located /\ request.Range = undefined /\ request.PartNumber = undefined

\* getObjectStream resolved and the stream was ended normally.
NormalEnd == gos = "resolved" /\ stream.ended = 1 /\ stream.errors = 0

\* C6 as stated: a whole-object download that ended normally has issued
\* ceil(L/p) fetches, the i-th of them (part i-1) for the bytes (i-1)*p
\* through min(L, i*p) - 1.
C6_AsStated ==
    (WholeObject /\ NormalEnd) =>
        /\ Len(calls) = Ceil(objLen, maxPartSize)
        /\ \A i \in 1..Len(calls) :
              calls[i].params.Range =
                 Some(RangeString((i - 1) * maxPartSize,
                                  Min(objLen, i * maxPartSize) - 1))

\* C6, amended: for an object of L >= 1 bytes a whole-object download never
\* issues more than ceil(L/p) fetches, and exactly that many when it ends
\* normally, for every concurrency; the bootstrap fetch asks for the bytes 0
\* through p-1 whatever L is, and the fetch of part i >= 1 for the bytes i*p
\* through min(L, (i+1)*p) - 1.
C6_FetchPlan ==
    WholeObject =>
        /\ objLen >= 1 => Len(calls) <= Ceil(objLen, maxPartSize)
        /\ Len(calls) >= 1 =>
              calls[1].params.Range = Some(RangeString(0, maxPartSize - 1))
        /\ \A i \in 2..Len(calls) :
              calls[i].params.Range =
                 Some(RangeString((i - 1) * maxPartSize,
                                  Min(objLen, i * maxPartSize) - 1))
        /\ NormalEnd => Len(calls) = Ceil(objLen, maxPartSize)

\* A whole-object download of three parts or more, the last one short,
\* ended normally under a concurrency above one.
C6_Witness ==
    /\ WholeObject
    /\ NormalEnd
    /\ Len(calls) >= 3
    /\ objLen % maxPartSize # 0
    /\ maxConcurrency >= 2

\* C7: for a client range 'bytes=s-e' with s <= e inside the object, a
\* download that ended normally has delivered exactly the bytes s through e
\* of the object, for every part size and concurrency.
C7_RangeExact ==
    \A s \in 0..MaxRangeByte : \A e \in s..MaxRangeByte :
        ( /\ Located
          /\ request.Range = Some(RangeString(s, e))
          /\ request.PartNumber = undefined
          /\ e < objLen
          /\ NormalEnd ) => Delivered = Bytes(s, e)

\* The request sets both a range and a part number.
BothSet == Located /\ HasRange /\ HasPartNumber

RejectedBeforeAnyFetch ==
    /\ calls = <<>>
    /\ gos \in {"notcalled", "rejected"}
    /\ ~PipelineStarted
    /\ stream = NewStream

\* The request has a range string that is not 'bytes=<start>-<end>', and no
\* part number.
MalformedRange ==
    /\ request.Range # undefined
    /\ Val(request.Range) \notin WellFormedRanges
    /\ ~HasPartNumber

C10_SinglePart ==
    (Located /\ request.Range = undefined /\ HasPartNumber) =>
        /\ ~PipelineStarted
        /\ gos # "notcalled" => (Len(calls) = 1 /\ calls[1].params = request)
        /\ gos = "resolved" =>
              /\ Len(stream.chunks) = 1
              /\ stream.chunks[1].Body = calls[1].Body
              /\ stream.ended = 1
              /\ stream.errors = 0
        /\ gos # "resolved" => stream = NewStream

\* The part came back with a declared length above the part size.
C10_Witness ==
    /\ Located /\ request.Range = undefined /\ HasPartNumber
    /\ gos = "resolved"
    /\ stream.contentLength # undefined
    /\ Val(stream.contentLength) > maxPartSize

HasWireRange ==
    request.Range # undefined /\ Val(request.Range) \in WellFormedRanges

RangeFirst ==
    LET rest == SubSeq(Val(request.Range), Len(BytesEq) + 1, Len(Val(request.Range)))
    IN DigitsToNat(SubSeq(rest, 1, IndexOf(rest, "-") - 1))

RangeLast ==
    LET rest == SubSeq(Val(request.Range), Len(BytesEq) + 1, Len(Val(request.Range)))
    IN DigitsToNat(SubSeq(rest, IndexOf(rest, "-") + 1, Len(rest)))

\* C12: for a client range 'bytes=s-e' (no part number) with e - s above the
\* part size, a resolved getObjectStream has started downloadByParts, with
\* content length e - s, byte offset s and starting part 1; it is started at
\* most once: a started frame keeps these parameters and its counters never
\* go back.
C12_FrameOfRange ==
    ( /\ Located
      /\ HasWireRange
      /\ request.PartNumber = undefined
      /\ request.Range = Some(RangeString(RangeFirst, RangeLast))
      /\ RangeLast - RangeFirst > maxPartSize ) =>
        /\ gos = "resolved" => PipelineStarted
        /\ PipelineStarted =>
              /\ dbp.contentLength = RangeLast - RangeFirst
              /\ dbp.byteOffset = RangeFirst
              /\ dbp.startingPart = 1
              /\ dbp.numParts = Ceil(RangeLast - RangeFirst, maxPartSize)

C12_StartedOnce ==
    PipelineStarted =>
        /\ dbp'.contentLength = dbp.contentLength
        /\ dbp'.byteOffset = dbp.byteOffset
        /\ dbp'.startingPart = dbp.startingPart
        /\ dbp'.numParts = dbp.numParts
        /\ dbp'.numDownloads >= dbp.numDownloads
        /\ dbp'.currentPart >= dbp.currentPart

C12_PipelineOfRange ==
    /\ [](C12_FrameOfRange)
    /\ [][C12_StartedOnce]_vars

\* The pipeline of a client range that starts past byte 0 is under way.
C12_Witness ==
    /\ HasRange
    /\ ~HasPartNumber
    /\ gos = "resolved"
    /\ dbp.pc = "awaitHead"
    /\ dbp.byteOffset >= 1
    /\ dbp.contentLength > maxPartSize
    /\ dbp.startingPart = 1
    /\ dbp.numDownloads >= 1

\* C13: an error is emitted on the stream only by a step taken when
\* getObjectStream has already resolved; so in every state with an error on
\* the stream getObjectStream has resolved, whatever the order in which the
\* fetches settle.
C13_ErrorInResolved == stream.errors > 0 => gos = "resolved"

C13_ErrorStep == stream'.errors # stream.errors => gos = "resolved"

C13_ErrorAfterResolution ==
    /\ [](C13_ErrorInResolved)
    /\ [][C13_ErrorStep]_vars

\* The first fetch of the pipeline failed and the error is on the stream.
C13_Witness ==
    /\ stream.errors = 1
    /\ Len(stream.chunks) = 1
    /\ dbp.pc = "returned"
    /\ calls[2].status = "failed"

\* C14: getObjectStream resolves in the step that writes the bootstrap
\* payload.  Until then the bootstrap is the only fetch and the stream is
\* untouched, so nothing of the pipeline can hold the resolution back; in the
\* resolving step every fetch of the pipeline is still pending, and the step
\* is taken whether or not the write found the stream ready.  With the
\* progress of SpecBootstrapFair alone (no fetch of the pipeline ever has to
\* settle, no 'drain' ever has to come) a fulfilled bootstrap fetch whose
\* length can be read always leads to the resolution.
C14_BeforeResolution ==
    gos = "awaiting" => (Len(calls) = 1 /\ stream = NewStream /\ ~PipelineStarted)

C14_ResolvingStep ==
    (stream.chunks = <<>> /\ stream'.chunks # <<>>) =>
        /\ gos = "awaiting"
        /\ gos' = "resolved"
        /\ Len(stream'.chunks) = 1
        /\ \A i \in 2..Len(calls') : calls'[i].status = "pending"

C14_ResolvesWithoutPipeline ==
    /\ [](C14_BeforeResolution)
    /\ [][C14_ResolvingStep]_vars
    /\ ( /\ gos = "awaiting"
         /\ calls[1].status = "ok"
         /\ ~ResolvedLength(contentLength, calls[1]).error ) ~> (gos = "resolved")

\* getObjectStream has resolved with the pipeline started, none of the
\* pipeline's fetches settled and the stream not ready.
C14_Witness ==
    /\ gos = "resolved"
    /\ dbp.pc = "awaitHead"
    /\ Len(calls) >= 3
    /\ \A i \in 2..Len(calls) : calls[i].status = "pending"
    /\ stream.needDrain
    /\ Len(stream.chunks) = 1

\* C15: downloadByParts ends the stream at most once, and only when it has
\* returned without an error with every part from its starting part to the
\* last on the stream (after the bootstrap part), each once.  With the
\* progress of SpecFair a started pipeline always comes to end the stream,
\* unless a fetch fails or a write is refused (a refused write is the case of
\* C3).
C15_EndedAfterAllParts ==
    PipelineStarted =>
        /\ stream.ended <= 1
        /\ stream.ended = 1 =>
              /\ dbp.pc = "returned"
              /\ stream.errors = 0
              /\ Len(stream.chunks) = dbp.numParts
              /\ \A i \in dbp.startingPart..(dbp.numParts - 1) :
                    calls[stream.chunks[i + 1].call].part = i
              /\ dbp.numDownloads = dbp.numParts - dbp.startingPart

C15_EndStep ==
    (PipelineStarted /\ stream.ended = 1) => stream'.ended = 1

C15_EndOfStream ==
    /\ [](C15_EndedAfterAllParts)
    /\ [][C15_EndStep]_vars
    /\ PipelineStarted ~>
          \/ stream.ended = 1
          \/ stream.needDrain
          \/ \E i \in 1..Len(calls) : calls[i].status = "failed"

\* A pipeline of three parts or more ended the stream with every fetch
\* fulfilled and no write refused.
C15_Witness ==
    /\ PipelineStarted
    /\ stream.ended = 1
    /\ ~stream.needDrain
    /\ dbp.numParts >= 3
    /\ \A i \in 1..Len(calls) : calls[i].status = "ok"

\* The total length the bootstrap result declares: the number after the '/'
\* of its ContentRange, when it has one.
DeclaredTotal ==
    IF calls[1].ContentRange = undefined THEN undefined
    ELSE parseInt(Val(SplitSecond(Val(calls[1].ContentRange), "/")))

\* The length of the client range as getObjectStream reads it (end - start),
\* when the request has a range in the wire format and no part number.
RangeLength ==
    IF HasWireRange /\ ~HasPartNumber
       /\ request.Range = Some(RangeString(RangeFirst, RangeLast))
    THEN Some(RangeLast - RangeFirst)
    ELSE undefined

\* The metadata is unassigned until the first write and unchanged after it.
MetadataSetOnce ==
    /\ [](stream.chunks = <<>> =>
            (stream.mimeType = undefined /\ stream.contentLength = undefined))
    /\ [][stream.chunks # <<>> =>
            /\ stream'.mimeType = stream.mimeType
            /\ stream'.contentLength = stream.contentLength]_vars

\* C16 as stated: the MIME type and the content length of the stream are
\* assigned once, with the first write, both from the bootstrap result.
C16_AsStated ==
    /\ MetadataSetOnce
    /\ [](stream.chunks # <<>> =>
            /\ stream.mimeType = calls[1].ContentType
            /\ stream.contentLength # undefined
            /\ stream.contentLength = DeclaredTotal)

\* C16, amended: the MIME type and the content length of the stream are
\* assigned once, in the step of the first write, and never changed
\* afterwards.  The MIME type is that of the bootstrap result.  The content
\* length is the length end - start of the client range when the request has
\* a range of non-zero length and no part number, and the total declared by
\* the bootstrap result otherwise.
C16_Metadata ==
    /\ MetadataSetOnce
    /\ [](stream.chunks # <<>> =>
            /\ stream.mimeType = calls[1].ContentType
            /\ stream.contentLength # undefined
            /\ stream.contentLength =
                  IF TruthyNum(RangeLength) THEN RangeLength ELSE DeclaredTotal)

\* The pipeline of a client range shorter than the object has ended.
C16_Witness ==
    /\ HasRange
    /\ ~HasPartNumber
    /\ dbp.pc = "returned"
    /\ stream.ended = 1
    /\ Len(stream.chunks) >= 2
    /\ stream.contentLength # DeclaredTotal

\* The first and the last byte a range string 'bytes=a-b' with a <= b names.
FirstByte(range) == Val(ByteRangeSpec(range)).first

LastByte(range) == Val(ByteRangeSpec(range)).last

\* C17: for a total length above 0, a part size above 0 and an offset of 0
\* or more (or none), the ranges getRangeOfPart returns for the parts 0 to
\* ceil(total/size) - 1 are byte ranges with first <= last; the first of
\* part 0 is the offset, the first of each later part is the byte after the
\* last of the part before it, and the last of the last part is offset +
\* total - 1: together they hold every byte of [offset, offset + total)
\* once.
C17_PartsTile ==
    applied.fn = "getRangeOfPart, each part" =>
        LET total  == applied.args[1]
            size   == applied.args[2]
            offset == IF applied.args[3] = undefined THEN 0 ELSE Val(applied.args[3])
            ranges == applied.result
            n      == Len(ranges)
        IN /\ n = Ceil(total, size)
           /\ \A i \in 1..n : ByteRangeSpec(ranges[i]) # undefined
           /\ FirstByte(ranges[1]) = offset
           /\ \A i \in 1..(n - 1) : FirstByte(ranges[i + 1]) = LastByte(ranges[i]) + 1
           /\ LastByte(ranges[n]) = offset + total - 1

\* Three parts or more, the last one short, after an offset.
C17_Witness ==
    /\ applied.fn = "getRangeOfPart, each part"
    /\ Len(applied.result) >= 3
    /\ applied.args[1] % applied.args[2] # 0
    /\ applied.args[3] # undefined
    /\ Val(applied.args[3]) >= 1

\* C18: getRangeOfPart(i, L, p, b) returns 'bytes=' start '-' end with
\* start = i*p + b and end = min((i+1)*p - 1 + b, L - 1 + b), b being 0 when
\* the call leaves it out.
C18_RangeOfPart ==
    applied.fn = "getRangeOfPart" =>
        LET i == applied.args[1]
            L == applied.args[2]
            p == applied.args[3]
            b == IF applied.args[4] = undefined THEN 0 ELSE Val(applied.args[4])
        IN applied.result =
              RangeString((i * p) + b, Min(((i + 1) * p) - 1 + b, L - 1 + b))

\* A call without offset for a part that the total length cuts short.
C18_Witness ==
    /\ applied.fn = "getRangeOfPart"
    /\ applied.args[4] = undefined
    /\ applied.args[1] >= 1
    /\ applied.args[1] * applied.args[3] < applied.args[2]
    /\ applied.args[2] < (applied.args[1] + 1) * applied.args[3]

\* C19: for the range string 'bytes=s-e' getInformationFromRange returns
\* startByte s, endByte e and length e - s.
C19_InformationFromRange ==
    \A s \in SampleBytes : \A e \in SampleBytes :
        ( /\ applied.fn = "getInformationFromRange"
          /\ applied.args = <<RangeString(s, e)>> ) =>
            applied.result = Some([startByte |-> s, endByte |-> e, length |-> e - s])

\* The call for 'bytes=100-900'.
C19_Witness ==
    /\ applied.fn = "getInformationFromRange"
    /\ applied.args = <<RangeString(100, 900)>>
    /\ applied.result # throw

\* C20: getInformationFromRange throws for every input that is not
\* 'bytes=<start>-<end>' with start <= end: for the strings that are not in
\* that syntax, and for those in it with start above end.
C20_RejectsAllOthers ==
    ( /\ applied.fn = "getInformationFromRange"
      /\ \/ \A s \in SampleBytes : \A e \in SampleBytes :
               applied.args # <<RangeString(s, e)>>
         \/ \E s \in SampleBytes : \E e \in SampleBytes :
               s > e /\ applied.args = <<RangeString(s, e)>> ) =>
        applied.result = throw

\* The part of C20 about syntax alone: a string not in the syntax is refused.
C20_RejectsMalformed ==
    ( /\ applied.fn = "getInformationFromRange"
      /\ \A s \in SampleBytes : \A e \in SampleBytes :
            applied.args # <<RangeString(s, e)>> ) =>
        applied.result = throw

\* The option is set and is not a positive number.
NotAPositiveNumber(v) ==
    v # JsUndefined /\ (v.type # "number" \/ v.nan \/ v.n < 0 \/ (v.n = 0 /\ ~v.half))

\* What the constructor stores for an option it accepts.
StoredFor(v, default) == IF v = JsUndefined THEN JsNumber(default) ELSE v

\* C21: the constructor throws without a client, and for every maxPartSize
\* or maxConcurrency option that is set and is not a positive number; when
\* it does not throw, an option left out is stored as its default (5 MiB,
\* 1) and an option set is stored unchanged.
C21_Constructor ==
    applied.fn = "constructor" =>
        /\ ~applied.args[1] => applied.result = throw
        /\ NotAPositiveNumber(applied.args[2]) => applied.result = throw
        /\ NotAPositiveNumber(applied.args[3]) => applied.result = throw
        /\ applied.result # throw =>
              /\ Val(applied.result).maxPartSize =
                    StoredFor(applied.args[2], DefaultMaxPartSize)
              /\ Val(applied.result).maxConcurrency =
                    StoredFor(applied.args[3], DefaultMaxConcurrency)

\* C21 but for NaN: the same with no option being NaN.
C21_ConstructorButNaN ==
    (applied.fn = "constructor" /\ applied.args[2] # JsNaN /\ applied.args[3] # JsNaN)
        => C21_Constructor

\* Parts held in memory, counted from below: the fetches issued whose payload
\* is not yet written to the stream (in flight or fulfilled), and, while the
\* stream owes a 'drain', the part whose write it refused, which its reader
\* has not taken yet.
BufferedAtLeast ==
    (Len(calls) - Len(stream.chunks)) + (IF stream.needDrain THEN 1 ELSE 0)

\* C22: at any time of a download at most maxConcurrency parts are held in
\* memory, those in the buffer of the stream counted.
C22_BufferedParts == BufferedAtLeast <= maxConcurrency

\* A step of the first download / of the second one.
FirstStep ==
    \/ GetObjectStream \/ BootstrapResolves \/ BootstrapRejects \/ HeadResolves
    \/ HeadRejects \/ Drain \/ FetchSucceeds \/ FetchFails

SecondStep ==
    \/ SecondGetObjectStream \/ SecondBootstrapResolves \/ SecondBootstrapRejects
    \/ SecondHeadResolves \/ SecondHeadRejects \/ SecondDrain
    \/ SecondFetchSucceeds \/ SecondFetchFails

\* The stream st, fed from the call log cs, has received parts of a download
\* of the whole object and nothing else: its i-th chunk is part i-1, the
\* bytes (i-1)*p through min(L, i*p) - 1, and it is ended only after the
\* last part.
PartsOfWholeObject(st, cs) ==
    /\ \A i \in 1..Len(st.chunks) :
          /\ cs[st.chunks[i].call].part = i - 1
          /\ st.chunks[i].Body =
                Bytes((i - 1) * maxPartSize, Min(objLen, i * maxPartSize) - 1)
    /\ st.ended > 0 => Len(st.chunks) = Ceil(objLen, maxPartSize)

\* The frame of one download is left alone by the steps of the other.
C23_OwnFrame ==
    /\ SecondStep => (dbp' = dbp /\ stream' = stream /\ calls' = calls)
    /\ FirstStep => (second'.dbp = second.dbp /\ second'.stream = second.stream
                     /\ second'.calls = second.calls)

\* C23: two overlapping calls of getObjectStream on one ManagedDownloader,
\* each asking for the whole object.  Whatever the interleaving of their
\* fetch completions, each stream receives exactly the parts of its own
\* download, in ascending order, and the queue, the next part index and the
\* delivered count of one download are never changed by a step of the other.
C23_Independent ==
    /\ [](PartsOfWholeObject(stream, calls)
          /\ PartsOfWholeObject(second.stream, second.calls))
    /\ [][C23_OwnFrame]_vars

\* The same for two calls that are given a request object each.
C23_WithOwnRequests ==
    /\ [](second.own =>
             /\ PartsOfWholeObject(stream, calls)
             /\ PartsOfWholeObject(second.stream, second.calls))
    /\ [][C23_OwnFrame]_vars

\* Both downloads came to their end, with the parts of the second one written
\* while the first pipeline was running.
C23_BothEnded ==
    /\ second.own
    /\ stream.ended = 1 /\ second.stream.ended = 1
    /\ Len(stream.chunks) >= 3 /\ Len(second.stream.chunks) >= 3

\* The write of the bootstrap payload returned false and the stream has not
\* emitted 'drain' since: part 0 is the only chunk written.
BootstrapRefused == stream.needDrain /\ Len(stream.chunks) = 1

\* C24: when the write of the bootstrap payload (part 0) returns false, no
\* fetch of the pipeline is issued and no further part is written until the
\* stream emits 'drain'.
C24_BootstrapBackpressure ==
    /\ [](BootstrapRefused => Len(calls) = 1)
    /\ [][BootstrapRefused =>
             (Len(calls') = Len(calls) /\ stream'.chunks = stream.chunks)]_vars

\* C25: within one download the fetches are issued in strictly ascending
\* part index, the k-th of them for part k-1, so that no part is requested
\* twice (no retry, also after a failure); the next part index is the number
\* of fetches issued, never decreases and never passes the number of parts;
\* no fetch is issued for a part index at or above the number of parts of a
\* download of one byte or more; a fetch once issued is not changed, and none
\* is issued after the pipeline reported a failure.
C25_IssueOrder ==
    /\ \A i \in 1..Len(calls) : calls[i].part = i - 1
    /\ (TruthyNum(contentLength) /\ Val(contentLength) >= 1) =>
          Len(calls) <= Ceil(Val(contentLength), maxPartSize)
    /\ PipelineStarted =>
          /\ dbp.currentPart = Len(calls)
          /\ dbp.currentPart <= dbp.numParts
    /\ ~PipelineStarted => Len(calls) <= 1

C25_IssueStep ==
    /\ dbp'.currentPart >= dbp.currentPart
    /\ Len(calls') >= Len(calls)
    /\ \A i \in 1..Len(calls) :
          /\ calls'[i].part = calls[i].part
          /\ calls'[i].params = calls[i].params
    /\ stream.errors > 0 => Len(calls') = Len(calls)

C25_AscendingIssue ==
    /\ [](C25_IssueOrder)
    /\ [][C25_IssueStep]_vars

\* The pipeline stopped on a failure with three fetches or more issued, under
\* a concurrency of two or more, and parts left unrequested.
C25_Witness ==
    /\ stream.errors = 1
    /\ maxConcurrency >= 2
    /\ Len(calls) >= 3
    /\ Len(calls) < dbp.numParts

\* The handles in the queue are those of the fetches issued last, in issue
\* order: consecutive part indices ending at currentPart - 1.
QueueConsecutive ==
    \A j \in 1..Len(dbp.queue) :
        /\ dbp.queue[j] = Len(calls) - Len(dbp.queue) + j
        /\ calls[dbp.queue[j]].part = dbp.currentPart - Len(dbp.queue) + j - 1

\* The lowest part index whose payload has not been written to the stream.
LowestUndelivered == Len(stream.chunks)

\* C26 as stated: in every state of a running pipeline the handle at the
\* head of the queue is that of the lowest part not yet delivered, and the
\* handles of the queue are consecutive and end at currentPart - 1.
C26_AsStated ==
    dbp.pc \in {"awaitHead", "awaitDrain"} =>
        /\ QueueConsecutive
        /\ dbp.queue # <<>> => calls[Head(dbp.queue)].part = LowestUndelivered

\* C26, amended: the queue is first-in first-out in issue order, its handles
\* those of consecutive part indices ending at currentPart - 1.  While the
\* head fetch is awaited its handle has already been taken off the queue
\* (await queue.shift()): the awaited handle is that of the lowest part not
\* yet delivered and the queue starts with the part after it.  While the
\* pipeline waits for 'drain' the head of the queue is the lowest part not
\* yet delivered.
C26_Fifo ==
    PipelineStarted =>
        /\ QueueConsecutive
        /\ dbp.pc = "awaitHead" =>
              /\ dbp.awaited = Len(calls) - Len(dbp.queue)
              /\ calls[dbp.awaited].part = LowestUndelivered
        /\ (dbp.pc = "awaitDrain" /\ dbp.queue # <<>>) =>
              calls[Head(dbp.queue)].part = LowestUndelivered

\* The head is awaited with two handles behind it, the second of them
\* fulfilled before the head.
C26_Witness ==
    /\ dbp.pc = "awaitHead"
    /\ Len(stream.chunks) >= 2
    /\ Len(dbp.queue) >= 2
    /\ calls[dbp.awaited].status = "pending"
    /\ calls[dbp.queue[2]].status = "ok"

\* C27: whenever the pipeline awaits the head fetch, the fetches issued and
\* not yet delivered (the awaited one and those in the queue) are
\* min(maxConcurrency, parts not yet delivered) in number: every iteration
\* refills the window to the limit before it awaits the head.
C27_WindowSaturated ==
    dbp.pc = "awaitHead" =>
        /\ Len(calls) - Len(stream.chunks) =
              Min(maxConcurrency, dbp.numParts - Len(stream.chunks))
        /\ 1 + Len(dbp.queue) = Len(calls) - Len(stream.chunks)

\* The head is awaited after two parts of the pipeline were delivered, the
\* window refilled to a limit of two or more, with parts left to request.
C27_Witness ==
    /\ dbp.pc = "awaitHead"
    /\ dbp.numDownloads >= 2
    /\ maxConcurrency >= 2
    /\ 1 + Len(dbp.queue) = maxConcurrency
    /\ dbp.currentPart < dbp.numParts

\* getObjectStream takes the request for one with a client range: a bucket,
\* a key, a range in the wire format and no part number.
AcceptedRange == Located /\ RangeLength # undefined

\* The bootstrap fetch of such a request was answered and getObjectStream
\* has gone on from its await.
RangeBootstrapped ==
    /\ AcceptedRange
    /\ Len(calls) >= 1
    /\ calls[1].status = "ok"
    /\ gos # "awaiting"

\* C28: with a client range and no part number, the content length of the
\* stream and the length downloadByParts partitions are the length read from
\* the client range, and the total of the store's ContentRange is not
\* consulted (so its absence cannot fail the call); for every range
\* getInformationFromRange accepts, those with start equal to end included.
C28_LengthOfRange ==
    RangeBootstrapped =>
        /\ gos = "resolved"
        /\ stream.contentLength = RangeLength
        /\ PipelineStarted => dbp.contentLength = Val(RangeLength)

\* The same for the ranges whose start and end differ.
C28_UnlessEmpty ==
    (RangeBootstrapped /\ RangeLength # Some(0)) =>
        /\ gos = "resolved"
        /\ stream.contentLength = RangeLength
        /\ PipelineStarted => dbp.contentLength = Val(RangeLength)

\* The caller asks for the whole object, for a part, or for a client range
\* 'bytes=s-e' with s <= e.
OrderedRequest ==
    /\ Located
    /\ \/ request.Range = undefined
       \/ /\ HasWireRange
          /\ request.Range = Some(RangeString(RangeFirst, RangeLast))
          /\ RangeFirst <= RangeLast

\* The Range header of a request sent to the store is a byte range
\* 'bytes=a-b' with 0 <= a <= b.
OrderedRangeHeader(ps) ==
    ps.Range # undefined => ByteRangeSpec(Val(ps.Range)) # undefined

\* C29: every byte range a download requests from the store, with the
\* bootstrap fetch or in the pipeline, has 0 <= start <= end.
C29_RangesOrdered ==
    OrderedRequest => \A i \in 1..Len(calls) : OrderedRangeHeader(calls[i].params)

\* The same for the requests other than a client range with start = end.
C29_UnlessEmpty ==
    (OrderedRequest /\ RangeLength # Some(0) /\ ~(HasRange /\ HasPartNumber)) =>
        \A i \in 1..Len(calls) : OrderedRangeHeader(calls[i].params)

\* downloadByParts has returned, having ended the stream or having emitted
\* one error on it.
Terminated ==
    /\ dbp.pc = "returned"
    /\ \/ stream.ended = 1 /\ stream.errors = 0
       \/ stream.ended = 0 /\ stream.errors = 1

\* A step taken while the pipeline waits for 'drain' that is not that event.
C30_StepWithoutDrain ==
    (dbp.pc = "awaitDrain" /\ stream'.needDrain) =>
        /\ dbp' = dbp
        /\ Len(calls') = Len(calls)
        /\ stream'.chunks = stream.chunks
        /\ stream'.ended = 0
        /\ stream'.errors = 0

\* C30: when every fetch issued is settled in the end and every write that
\* returned false is followed by a 'drain' (the progress of SpecFair), a
\* started pipeline always comes to return, with the stream ended or with
\* one error emitted on it, never both and never neither.  Without the
\* 'drain' the pipeline stays where it waits: as long as the event has not
\* come, its frame is unchanged, no fetch is issued, nothing is written and
\* the stream is neither ended nor given an error.
C30_Termination ==
    /\ PipelineStarted ~> Terminated
    /\ [](dbp.pc = "returned" => Terminated)
    /\ [][C30_StepWithoutDrain]_vars

\* The pipeline waits for 'drain' with parts left to deliver and every fetch
\* it issued settled: only the event can move it.
C30_Witness ==
    /\ dbp.pc = "awaitDrain"
    /\ Len(stream.chunks) < dbp.numParts
    /\ Len(stream.chunks) >= 2
    /\ dbp.queue # <<>>
    /\ \A i \in 1..Len(calls) : calls[i].status # "pending"

\* The Range header of a request sent to the store is a byte range that lies
\* inside the client range of the request.
InsideClientRange(ps) ==
    /\ ps.Range # undefined
    /\ ByteRangeSpec(Val(ps.Range)) # undefined
    /\ RangeFirst <= FirstByte(Val(ps.Range))
    /\ LastByte(Val(ps.Range)) <= RangeLast

\* C31: for a client range 'bytes=s-e' (s <= e, no part number) every byte
\* range the download requests from the store, with the bootstrap fetch and
\* in the pipeline, lies inside [s, e].
C31_InsideRange ==
    (AcceptedRange /\ RangeFirst <= RangeLast) =>
        \A i \in 1..Len(calls) : InsideClientRange(calls[i].params)

\* The same for the client ranges with s < e.
C31_UnlessEmpty ==
    (AcceptedRange /\ RangeFirst < RangeLast) =>
        \A i \in 1..Len(calls) : InsideClientRange(calls[i].params)

\* C32: a fetch carries the range of its own part index for its whole life.
\* The bootstrap fetch carries the request as getObjectStream prepared it,
\* the fetch of part i the range getRangeOfPart gives for i; issuing later
\* fetches rewrites the Range of the one request object (params) and leaves
\* the range of every fetch issued before, settled or in flight, as it was.
\* The client reads the request when getObject is called, as the downloads
\* with a concurrency above one against the store require.
C32_RangeOfOwnPart ==
    /\ Len(calls) >= 1 => calls[1].params = PrepareRequest(request).params
    /\ \A i \in 2..Len(calls) :
          calls[i].params =
             [request EXCEPT !.Range =
                 Some(getRangeOfPart(calls[i].part, dbp.contentLength, maxPartSize,
                                     dbp.byteOffset))]

C32_RangeKept ==
    \A i \in 1..Len(calls) : calls'[i].params = calls[i].params

C33_EventOwed == dbp.pc = "awaitDrain" => stream.needDrain

C33_EventResumes ==
    (dbp.pc = "awaitDrain" /\ ~stream'.needDrain) =>
        /\ dbp'.pc \in {"awaitHead", "returned"}
        /\ dbp'.numDownloads = dbp.numDownloads + 1

C33_DrainNotMissed ==
    /\ [](C33_EventOwed)
    /\ [][C33_EventResumes]_vars
    /\ (dbp.pc = "awaitDrain") ~> (dbp.pc # "awaitDrain")

\* The pipeline waits for 'drain' after the write of its last part.
C33_Witness ==
    /\ dbp.pc = "awaitDrain"
    /\ dbp.queue = <<>>
    /\ Len(stream.chunks) = dbp.numParts
    /\ dbp.numParts >= 3

\* C34: the terminal outcomes of the stream are exclusive and final.  The
\* stream is ended at most once and given an error at most once, never both;
\* and once it is ended or has been given an error nothing more is written
\* to it, and it is neither ended nor given an error again.
C34_Exclusive ==
    /\ stream.ended <= 1
    /\ stream.errors <= 1
    /\ ~(stream.ended > 0 /\ stream.errors > 0)

C34_Final ==
    (stream.ended > 0 \/ stream.errors > 0) =>
        /\ stream'.chunks = stream.chunks
        /\ stream'.ended = stream.ended
        /\ stream'.errors = stream.errors

C34_TerminalOutcome ==
    /\ [](C34_Exclusive)
    /\ [][C34_Final]_vars

\* The stream was given an error while two later fetches, both fulfilled,
\* are left in the queue.
C34_Witness ==
    /\ stream.errors = 1
    /\ Len(dbp.queue) >= 2
    /\ \A j \in 1..Len(dbp.queue) : calls[dbp.queue[j]].status = "ok"

\* The store answered call i with exactly the bytes of the range requested.
ExactAnswer(i) ==
    /\ calls[i].status = "ok"
    /\ calls[i].params.Range # undefined
    /\ ByteRangeSpec(Val(calls[i].params.Range)) # undefined
    /\ calls[i].Body = Bytes(FirstByte(Val(calls[i].params.Range)),
                             LastByte(Val(calls[i].params.Range)))

\* C35: for a whole-object request and for a client range (no part number),
\* when the download ended normally and the store answered every fetch with
\* exactly the bytes of the range requested, the number of bytes written to
\* the stream is the stream's contentLength; for a whole-object request
\* also when the object is shorter than the range of the bootstrap fetch.
C35_LengthWritten ==
    /\ ( /\ WholeObject \/ AcceptedRange
         /\ NormalEnd
         /\ \A i \in 1..Len(calls) : ExactAnswer(i) )
       => stream.contentLength = Some(Len(Delivered))
    /\ (WholeObject /\ NormalEnd) => stream.contentLength = Some(Len(Delivered))

\* The download of a client range inside the object ended normally after a
\* pipeline of three parts or more, the last one short.
C35_Witness ==
    /\ AcceptedRange
    /\ NormalEnd
    /\ Len(stream.chunks) >= 3
    /\ Val(RangeLength) % maxPartSize # 0
    /\ \A i \in 1..Len(calls) : ExactAnswer(i)

\* C36: getObjectStream and downloadByParts leave the request object of the
\* caller as it was given (bucket, key, range and part number), so that a
\* second call given the same object would prepare the same bootstrap
\* request as the first did.
C36_RequestUnchanged ==
    /\ params = request
    /\ PrepareRequest(params) = PrepareRequest(request)

\* The fields other than Range are left as given.
C36_OtherFieldsUnchanged ==
    /\ params.Bucket = request.Bucket
    /\ params.Key = request.Key
    /\ params.PartNumber = request.PartNumber

====
